---- MODULE Spec2Model ----
(***************************************************************************)
(* Universal HTTP ping service: the scheduled service (src/unnamed/        *)
(* part_000, a cron job plus an initial ping) and the single-cycle program *)
(* (src/simple-ping.js).  One step of the model is one turn of the Node.js *)
(* event loop: an event handler together with the promise continuations   *)
(* (microtasks) it makes runnable, up to the next await on something that  *)
(* is still pending.  Console output is kept as the set of lines written:  *)
(* `logs` for the lines of main and of the process handlers, the `log`     *)
(* field of a cycle for the lines of that pingAllWebsites invocation.      *)
(* The texts leave out emoji and write the time of day and the name of a   *)
(* signal as <time> and <signal>.                                          *)
(***************************************************************************)
EXTENDS Integers, Sequences, FiniteSets, TLC

VARIABLES
  prog,          \* which program runs: "service" (part_000) or "simple" (simple-ping.js)
  WEBSITE_URLS,  \* the configured list, after split(",") and trim
  envPingDelay,  \* parseInt(process.env.PING_DELAY)
  PING_DELAY,    \* parseInt(process.env.PING_DELAY) || 1000
  LOG_LEVEL,     \* process.env.LOG_LEVEL || "info"
  PRIVACY_MODE,  \* process.env.PRIVACY_MODE === "true" || false
  proc,          \* "init" before main(), "running", "exited" after process.exit
  exitCode,      \* the argument of process.exit, NoExit while the process lives
  job,           \* the CronJob: "none", "running", "stopped"
  cycles,        \* every pingAllWebsites invocation started so far, in start order
  logs,          \* the console lines written outside pingAllWebsites
  call,          \* the last direct call of a display function, NoCall if none
  flowing        \* the requests whose socket is receiving body data

vars == <<prog, WEBSITE_URLS, envPingDelay, PING_DELAY, LOG_LEVEL, PRIVACY_MODE,
          proc, exitCode, job, cycles, logs, call, flowing>>

\* ---------------------------------------------------------------- bounds
MaxUrls == 2       \* longest configured list
MaxCycles == 2     \* pingAllWebsites invocations per run
MaxElapsed == 0    \* largest Date.now() - startTime
MaxElapsedWide == 2 \* the same, where elapsed times are averaged

\* ------------------------------------------------------------ environment
UrlA == "https://www.example1.com"
UrlB == "http://keep.alive/ping"
UrlBad == "not a url"
UrlUniverse == {UrlA, UrlB, UrlBad}

\* further entries, for the display of URLs: hosts of 6 and 7 characters, a
\* short host, an entry without a scheme
UrlHost6 == "https://ab.com/health"
UrlHost7 == "http://abc.org/"
UrlShort == "https://a.io"
UrlNoScheme == "www.secret.example/token"
DisplayUniverse == UrlUniverse \cup {UrlHost6, UrlHost7, UrlShort, UrlNoScheme}

\* new URL(url): the parts the programs read, or a TypeError
ParseURL(url) ==
  CASE url = UrlA -> [ok |-> TRUE, protocol |-> "https:", hostname |-> "www.example1.com", pathname |-> "/"]
    [] url = UrlB -> [ok |-> TRUE, protocol |-> "http:", hostname |-> "keep.alive", pathname |-> "/ping"]
    [] url = UrlHost6 -> [ok |-> TRUE, protocol |-> "https:", hostname |-> "ab.com", pathname |-> "/health"]
    [] url = UrlHost7 -> [ok |-> TRUE, protocol |-> "http:", hostname |-> "abc.org", pathname |-> "/"]
    [] url = UrlShort -> [ok |-> TRUE, protocol |-> "https:", hostname |-> "a.io", pathname |-> "/"]
    [] OTHER -> [ok |-> FALSE, protocol |-> "", hostname |-> "", pathname |-> ""]

InvalidUrlMessage == "Invalid URL"
TimeoutMessage == "Request timeout"
HangUpMessage == "socket hang up"
TransportErrors == {"connect ECONNREFUSED"}
StatusCodes == {199, 200, 399, 400}
ElapsedVals == 0..MaxElapsed
ElapsedValsWide == 0..MaxElapsedWide
NoExit == -1
NoStatus == 0

\* values of LOG_LEVEL: the three the log functions name and one they do not
LogLevels == {"info", "warn", "error", "debug"}

\* REQUEST_TIMEOUT with process.env.REQUEST_TIMEOUT unset
REQUEST_TIMEOUT == IF prog = "simple" THEN 30000 ELSE 60000

\* parseInt(process.env.PING_DELAY): NaN when unset or not a number
ParsedDelays == {[nan |-> TRUE, n |-> 0], [nan |-> FALSE, n |-> 0], [nan |-> FALSE, n |-> -1]}

\* parseInt(...) || 1000: NaN and 0 are falsy
PingDelayOf(p) == IF p.nan \/ p.n = 0 THEN 1000 ELSE p.n

\* PING_DELAY unset or set to a number other than 0
UsualDelays == {p \in ParsedDelays : p.nan \/ p.n # 0}

\* every kind of value of the variable: unset, 0, negative, positive
EveryDelay == ParsedDelays \cup {[nan |-> FALSE, n |-> 5]}

UrlLists == UNION {[1..n -> UrlUniverse] : n \in 1..MaxUrls}

\* lists of a URL and of a host that was configured without its scheme
LogUrlLists == UNION {[1..n -> {UrlA, UrlNoScheme}] : n \in 1..MaxUrls}

NumUrls == Len(WEBSITE_URLS)

\* ---------------------------------------------------------------- logging
\* logInfo, logWarn, logError of part_000: the lines console gets
LogInfo(message) ==
  IF LOG_LEVEL \in {"info", "warn", "error"}
  THEN {[fn |-> "logInfo", text |-> message]} ELSE {}

LogWarn(message) ==
  IF LOG_LEVEL \in {"warn", "error"}
  THEN {[fn |-> "logWarn", text |-> message]} ELSE {}

LogError(message) ==
  IF LOG_LEVEL = "error"
  THEN {[fn |-> "logError", text |-> message]} ELSE {}

\* log of simple-ping.js: always written, behind a timestamp
Log(message) == {[fn |-> "log", text |-> "[<time>] " \o message]}

Ms(t) == ToString(t) \o "ms"

\* ---------------------------------------------------------------- display
\* mutant: a short host is redacted without the path
MaskUrlShortNoPath(url) ==
  IF ~PRIVACY_MODE THEN url
  ELSE LET parsed == ParseURL(url)
           domain == parsed.hostname
       IN IF ~parsed.ok THEN "https://***"
          ELSE IF Len(domain) > 6
          THEN "https://" \o SubSeq(domain, 1, 3) \o "***"
                 \o SubSeq(domain, Len(domain) - 2, Len(domain)) \o parsed.pathname
          ELSE "https://***"

\* maskUrl
MaskUrl(url) ==
  IF ~PRIVACY_MODE THEN url
  ELSE LET parsed == ParseURL(url)
           domain == parsed.hostname
       IN IF ~parsed.ok THEN "https://***"
          ELSE "https://"
                 \o (IF Len(domain) > 6
                     THEN SubSeq(domain, 1, 3) \o "***"
                            \o SubSeq(domain, Len(domain) - 2, Len(domain))
                     ELSE "***")
                 \o parsed.pathname

\* mutant: the endpoint number is the 0-based index
DisplayUrlZeroBased(url, index) ==
  IF PRIVACY_MODE THEN "Endpoint " \o ToString(index) ELSE MaskUrl(url)

\* displayUrl of pingWebsite(url, index) in part_000
DisplayUrl(url, index) ==
  IF PRIVACY_MODE THEN "Endpoint " \o ToString(index + 1) ELSE MaskUrl(url)

\* no display function was called directly
NoCall == [fn |-> "none"]

\* lists over every kind of entry the display functions distinguish
DisplayUrlLists == UNION {[1..n -> DisplayUniverse] : n \in 1..MaxUrls}

\* ------------------------------------------------------------- validation
\* validateWebsites (service) / the filter in main (simple): the entries
\* that new URL accepts, in order
RECURSIVE ValidUrlsOf(_)
ValidUrlsOf(urls) ==
  IF urls = <<>> THEN <<>>
  ELSE LET rest == ValidUrlsOf(Tail(urls))
       IN IF ParseURL(Head(urls)).ok THEN <<Head(urls)>> \o rest ELSE rest

\* the entries new URL rejects
InvalidUrlsOf(urls) == {urls[j] : j \in {k \in DOMAIN urls : ~ParseURL(urls[k]).ok}}
NumInvalid(urls) == Len(urls) - Len(ValidUrlsOf(urls))

\* the lines validation writes: one per invalid entry and their count
ValidationLines(urls) ==
  IF prog = "service"
  THEN UNION {LogError("Invalid URL: " \o u) : u \in InvalidUrlsOf(urls)}
       \cup (IF NumInvalid(urls) > 0
             THEN LogError("Found " \o ToString(NumInvalid(urls))
                           \o " invalid URLs. Please check your configuration.")
             ELSE {})
  ELSE UNION {Log("Invalid URL detected: " \o u) : u \in InvalidUrlsOf(urls)}
       \cup (IF NumInvalid(urls) > 0 /\ NumInvalid(urls) < Len(urls)
             THEN Log(ToString(NumInvalid(urls)) \o " invalid URLs were skipped.")
             ELSE {})

\* mutant: the emptiness test compares the wrong way and never holds
NoValidUrlsNever(valid) == Len(valid) < 0

\* validWebsites.length === 0 / validUrls.length === 0
NoValidUrls(valid) == Len(valid) = 0

\* --------------------------------------------------------------- outcomes
\* mutant: only 2xx counts as success
ResolvedOnly2xx(url, code, t) ==
  [url |-> url, success |-> (code >= 200 /\ code < 300), statusCode |-> code, responseTime |-> t]

\* mutant: an unacceptable status also carries a failure reason
ResolvedWithError(url, code, t) ==
  IF code >= 200 /\ code < 400
  THEN [url |-> url, success |-> TRUE, statusCode |-> code, responseTime |-> t]
  ELSE [url |-> url, success |-> FALSE, statusCode |-> code, responseTime |-> t,
        error |-> "HTTP error"]

\* resolve({url, success, statusCode, responseTime}) of the response path
Resolved(url, code, t) ==
  [url |-> url, success |-> (code >= 200 /\ code < 400), statusCode |-> code, responseTime |-> t]

\* reject({url, error, responseTime}) of the timeout, error and catch paths
Rejected(url, msg, t) == [url |-> url, error |-> msg, responseTime |-> t]

Fulfil(v) == [kind |-> "fulfilled", value |-> v]
Reject(v) == [kind |-> "rejected", value |-> v]

\* the message of the catch path of pingWebsite
ParseFailureMessage ==
  IF prog = "simple" THEN "Invalid URL: " \o InvalidUrlMessage ELSE InvalidUrlMessage

\* r.success of results.filter((r) => r.success): undefined on a rejection
Success(r) == "success" \in DOMAIN r /\ r.success

\* results.filter((r) => r.success).length
RECURSIVE CountSuccess(_)
CountSuccess(rs) ==
  IF rs = <<>> THEN 0 ELSE (IF Success(Head(rs)) THEN 1 ELSE 0) + CountSuccess(Tail(rs))

\* ------------------------------------------------------ lines of one probe
\* the lines of the response path: the callback of protocol.get (service),
\* res.on("end") (simple)
ResponseLines(url, index, code, t) ==
  IF prog = "service"
  THEN IF code >= 200 /\ code < 400
       THEN LogInfo("Ping successful for " \o DisplayUrl(url, index))
            \cup LogInfo("   Status: " \o ToString(code) \o ", Response Time: " \o Ms(t))
            \cup LogInfo("   Time: <time>")
       ELSE LogWarn("Ping failed for " \o DisplayUrl(url, index))
            \cup LogWarn("   Status: " \o ToString(code) \o ", Response Time: " \o Ms(t))
            \cup LogWarn("   Time: <time>")
  ELSE Log(url \o " | Status: " \o ToString(code) \o " | Time: " \o Ms(t))

\* the line of req.on("timeout")
TimeoutLines(url, index) ==
  IF prog = "service"
  THEN LogError("Timeout for " \o DisplayUrl(url, index) \o " after " \o Ms(REQUEST_TIMEOUT))
  ELSE Log(url \o " | Timeout after " \o Ms(REQUEST_TIMEOUT))

\* the lines of req.on("error"); logError takes one parameter, the message
\* passed second is not written
ErrorLines(url, index, msg, t) ==
  IF prog = "service"
  THEN LogError("Ping error for " \o DisplayUrl(url, index) \o ":")
       \cup LogError("   Response Time: " \o Ms(t))
       \cup LogError("   Time: <time>")
  ELSE Log(url \o " | Error: " \o msg \o " | Time: " \o Ms(t))

\* the line of the catch path of pingWebsite
ParseFailureLines(url, index) ==
  IF prog = "service"
  THEN LogError("Invalid URL " \o DisplayUrl(url, index) \o ":")
  ELSE Log(url \o " | Invalid URL: " \o InvalidUrlMessage)

\* ------------------------------------------------------------ one request
NoRequest == [st |-> "none", hangup |-> FALSE, statusCode |-> NoStatus, responseTime |-> 0]

\* a request is in flight from protocol.get until its body has ended, it
\* was destroyed or it failed
InFlight(r) == r.st \in {"sent", "draining"}

\* -------------------------------------------------------------- one cycle
\* totalTime / results.length as an exact fraction; 0 / 0 is NaN
AverageOf(total, n) ==
  IF n = 0 THEN [nan |-> TRUE, num |-> 0, den |-> 0]
  ELSE [nan |-> FALSE, num |-> total, den |-> n]

\* the averageResponseTime of a cycle that has not computed one
NoAverage == [nan |-> FALSE, num |-> 0, den |-> 0]

\* Math.round(avgResponseTime) as the template literal prints it
RoundedText(avg) ==
  IF avg.nan THEN "NaN" ELSE ToString((2 * avg.num + avg.den) \div (2 * avg.den))

\* the first lines of pingAllWebsites
StartLines ==
  IF prog = "service"
  THEN LogInfo("Starting ping cycle...") \cup LogInfo("<time>") \cup LogInfo("----")
  ELSE Log("Starting ping cycle for " \o ToString(NumUrls) \o " websites...")
       \cup Log("----")

\* the locals of one pingAllWebsites invocation, the number of protocol.get
\* calls it made per endpoint, and the lines it wrote
NewCycle ==
  [i |-> 1, phase |-> "probe", results |-> <<>>, totalTime |-> 0,
   successful |-> 0, failed |-> 0, averageResponseTime |-> NoAverage,
   reqs |-> [j \in 1..NumUrls |-> NoRequest],
   gets |-> [j \in 1..NumUrls |-> 0],
   log |-> StartLines]

\* console output of a handler that runs for this cycle
Write(cyc, lines) == [cyc EXCEPT !.log = @ \cup lines]

\* mutant: results.unshift(...) instead of push
PushResultFront(cyc, o) == [cyc EXCEPT !.results = <<o>> \o @]

\* results.push(...)
PushResult(cyc, o) == [cyc EXCEPT !.results = Append(@, o)]

\* mutant: only the try block adds to totalTime
AddTimeTryOnly(cyc, o, guarded) ==
  IF prog = "simple" /\ ~guarded
  THEN [cyc EXCEPT !.totalTime = @ + o.responseTime]
  ELSE cyc

\* totalTime += responseTime (simple-ping.js only; the catch path adds a
\* truthy responseTime only)
AddTime(cyc, o, guarded) ==
  IF prog = "simple" /\ (~guarded \/ o.responseTime # 0)
  THEN [cyc EXCEPT !.totalTime = @ + o.responseTime]
  ELSE cyc

\* mutant: no catch block, a rejection escapes pingAllWebsites
LoopBodyNoCatch(cyc, settled) ==
  IF settled.kind = "fulfilled"
  THEN [cyc EXCEPT !.results = Append(@, settled.value)]
  ELSE [cyc EXCEPT !.phase = "rejected"]

\* the try/catch around await pingWebsite: a fulfilled value is pushed by
\* the try block, a rejection's reason by the catch block
LoopBody(cyc, settled) ==
  IF settled.kind = "fulfilled"
  THEN AddTime(PushResult(cyc, settled.value), settled.value, FALSE)
  ELSE AddTime(PushResult(cyc, settled.value), settled.value, TRUE)

\* the lines after the loop and the values pingAllWebsites returns
Summary(cyc, successful, failed) ==
  LET avg == IF prog = "simple" THEN AverageOf(cyc.totalTime, Len(cyc.results))
             ELSE NoAverage
      counts == ToString(successful) \o " successful, " \o ToString(failed) \o " failed"
      lines == IF prog = "service"
               THEN LogInfo("----") \cup LogInfo("Ping Summary: " \o counts)
                    \cup LogInfo("Next ping in 15 minutes")
               ELSE Log("----") \cup Log("Summary: " \o counts)
                    \cup Log("Average response time: " \o RoundedText(avg) \o "ms")
                    \cup Log("Keep-alive ping completed successfully!")
  IN [cyc EXCEPT !.phase = "done", !.successful = successful, !.failed = failed,
                 !.averageResponseTime = avg, !.log = @ \cup lines]

\* mutant: failed counts the outcomes that carry a failure reason
SummariseFailedIsErrors(cyc) ==
  Summary(cyc, CountSuccess(cyc.results),
          Cardinality({j \in DOMAIN cyc.results : "error" \in DOMAIN cyc.results[j]}))

\* the summary after the loop
Summarise(cyc) ==
  LET ok == CountSuccess(cyc.results)
  IN Summary(cyc, ok, Len(cyc.results) - ok)

\* the for loop from the iteration cyc.i on, and what follows a settled
\* probe, up to the next await on something pending
RECURSIVE Iterate(_), AfterProbe(_, _)

\* mutant: no delay after the last endpoint
AfterProbeSkipLast(cyc, settled) ==
  LET c1 == LoopBody(cyc, settled)
  IN IF c1.phase = "rejected" THEN c1
     ELSE IF PING_DELAY > 0 /\ c1.i < NumUrls THEN [c1 EXCEPT !.phase = "delay"]
     ELSE Iterate([c1 EXCEPT !.i = @ + 1])

Iterate(cyc) ==
  IF cyc.i > NumUrls THEN Summarise(cyc)
  ELSE LET url == WEBSITE_URLS[cyc.i]
       IN IF ParseURL(url).ok
          THEN [cyc EXCEPT !.phase = "probe", !.reqs[cyc.i].st = "sent",
                           !.gets[cyc.i] = @ + 1]
          ELSE AfterProbe(Write([cyc EXCEPT !.phase = "probe"],
                                ParseFailureLines(url, cyc.i - 1)),
                          Reject(Rejected(url, ParseFailureMessage, 0)))

AfterProbe(cyc, settled) ==
  LET c1 == LoopBody(cyc, settled)
  IN IF c1.phase = "rejected" THEN c1
     ELSE IF PING_DELAY > 0 THEN [c1 EXCEPT !.phase = "delay"]
     ELSE Iterate([c1 EXCEPT !.i = @ + 1])

\* the promise of pingWebsite(WEBSITE_URLS[j]) is pending while the loop
\* awaits it
Pending(cyc, j) == cyc.phase = "probe" /\ cyc.i = j

\* mutant: every resolve or reject call is taken, settled promise or not
SettleEveryCall(cyc, j, settled) == AfterProbe(cyc, settled)

\* resolve(...) / reject(...): a settled promise ignores further calls
Settle(cyc, j, settled) == IF Pending(cyc, j) THEN AfterProbe(cyc, settled) ELSE cyc

\* ---------------------------------------------------------------- process
\* process.env.PING_INTERVAL unset
PING_INTERVAL == "*/15 * * * *"

\* mutant: the exit code ignores the summary
ExitCodeAlwaysZero(cyc) == 0

\* summary.failed > 0 ? process.exit(1) : process.exit(0)
ExitCodeFor(cyc) == IF cyc.failed > 0 THEN 1 ELSE 0

\* the configuration a run starts from; Init leaves the logging environment
\* variables unset and PING_DELAY unset or other than 0
Configured(lists, delays, levels, modes) ==
  /\ prog \in {"service", "simple"}
  /\ WEBSITE_URLS \in lists
  /\ envPingDelay \in delays
  /\ PING_DELAY = PingDelayOf(envPingDelay)
  /\ LOG_LEVEL \in levels
  /\ PRIVACY_MODE \in modes
  /\ proc = "init"
  /\ exitCode = NoExit
  /\ job = "none"
  /\ cycles = <<>>
  /\ logs = {}
  /\ call = NoCall
  /\ flowing = {}

Init == Configured(UrlLists, UsualDelays, {"info"}, {FALSE})

\* what a handler does to the process besides the cycle it runs for
Stay == [proc |-> proc, exitCode |-> exitCode, job |-> job, lines |-> {}]

\* main of simple-ping.js after await pingAllWebsites()
MainAfterCycle(summary) ==
  [proc |-> "exited", exitCode |-> ExitCodeFor(summary), job |-> job,
   lines |-> IF summary.failed > 0
             THEN Log(ToString(summary.failed) \o " websites failed to respond properly.")
             ELSE Log("All websites are alive and healthy!")]

\* the catch block of main of simple-ping.js; the reason of a rejected probe
\* has no message property
MainCatch ==
  [proc |-> "exited", exitCode |-> 1, job |-> job,
   lines |-> Log("Fatal error: undefined")]

\* mutant: nothing catches the rejection of a cycle, the unhandledRejection
\* handler stops the job and exits
RejectionUncaught(c) ==
  [proc |-> "exited", exitCode |-> 1, job |-> "stopped",
   lines |-> LogError("Unhandled Rejection at:")]

\* the catch of the cron callback and the .catch of the initial ping (the
\* first cycle of a run): the error is logged, nothing else happens
RejectionCaught(c) ==
  [proc |-> proc, exitCode |-> exitCode, job |-> job,
   lines |-> LogError(IF c = 1 THEN "Error in initial ping:" ELSE "Error in cron job:")]

\* what follows the return or the rejection of cycle c
Continuation(c, nc) ==
  IF nc.phase = cycles[c].phase THEN Stay
  ELSE IF prog = "simple"
  THEN (IF nc.phase = "done" THEN MainAfterCycle(nc)
        ELSE IF nc.phase = "rejected" THEN MainCatch ELSE Stay)
  ELSE IF nc.phase = "rejected" THEN RejectionCaught(c) ELSE Stay

\* the step of cycle c that left it as nc, with the continuation of its caller
Commit(c, nc) ==
  LET e == Continuation(c, nc)
  IN /\ cycles' = [cycles EXCEPT ![c] = nc]
     /\ proc' = e.proc
     /\ exitCode' = e.exitCode
     /\ job' = e.job
     /\ logs' = logs \cup e.lines
     /\ UNCHANGED <<prog, WEBSITE_URLS, envPingDelay, PING_DELAY, LOG_LEVEL, PRIVACY_MODE,
                   call, flowing>>

\* the lines of main of part_000 before createCronJob
StartupLines ==
  LogInfo("Cronjob service starting...")
  \cup LogInfo("Websites to monitor:")
  \cup (IF PRIVACY_MODE
        THEN LogInfo("   " \o ToString(NumUrls)
                     \o " endpoints configured (URLs hidden for privacy)")
        ELSE UNION {LogInfo("   " \o ToString(k) \o ". " \o MaskUrl(WEBSITE_URLS[k]))
                      : k \in 1..NumUrls})
  \cup LogInfo("Schedule: " \o PING_INTERVAL)
  \cup LogInfo("Request timeout: " \o Ms(REQUEST_TIMEOUT))
  \cup LogInfo("Delay between pings: " \o Ms(PING_DELAY))
  \cup LogInfo("Starting cron job...")

\* main() of part_000: the startup lines, createCronJob (validation, fatal
\* when nothing is valid), job.start(), the initial pingAllWebsites(), and the
\* last statement of the script
ServiceMain ==
  /\ prog = "service" /\ proc = "init"
  /\ IF NoValidUrls(ValidUrlsOf(WEBSITE_URLS))
     THEN /\ proc' = "exited" /\ exitCode' = 1
          /\ logs' = StartupLines \cup ValidationLines(WEBSITE_URLS)
                       \cup LogError("No valid websites to monitor. Exiting...")
          /\ UNCHANGED <<job, cycles>>
     ELSE /\ proc' = "running"
          /\ job' = "running"
          /\ cycles' = <<Iterate(NewCycle)>>
          /\ logs' = StartupLines \cup ValidationLines(WEBSITE_URLS)
                       \cup LogInfo("Running initial ping...")
                       \cup LogInfo("Cronjob service is running and will keep your apps alive!")
          /\ UNCHANGED exitCode
  /\ UNCHANGED <<prog, WEBSITE_URLS, envPingDelay, PING_DELAY, LOG_LEVEL, PRIVACY_MODE,
                   call, flowing>>

\* main() of simple-ping.js: validation, fatal when nothing is valid, then
\* await pingAllWebsites() and exit by its summary
SimpleMain ==
  /\ prog = "simple" /\ proc = "init"
  /\ IF NoValidUrls(ValidUrlsOf(WEBSITE_URLS))
     THEN /\ proc' = "exited" /\ exitCode' = 1
          /\ logs' = ValidationLines(WEBSITE_URLS)
                       \cup Log("No valid URLs found. Please check your WEBSITE_URLS configuration.")
          /\ UNCHANGED cycles
     ELSE LET nc == Iterate(NewCycle)
              e == IF nc.phase = "done" THEN MainAfterCycle(nc)
                   ELSE IF nc.phase = "rejected" THEN MainCatch
                   ELSE [Stay EXCEPT !.proc = "running"]
          IN /\ cycles' = <<nc>>
             /\ proc' = e.proc
             /\ exitCode' = e.exitCode
             /\ logs' = ValidationLines(WEBSITE_URLS) \cup e.lines
  /\ UNCHANGED <<prog, WEBSITE_URLS, envPingDelay, PING_DELAY, LOG_LEVEL, PRIVACY_MODE,
               job, call, flowing>>

\* a tick of the CronJob: its callback calls pingAllWebsites()
CronTick ==
  /\ prog = "service" /\ proc = "running" /\ job = "running"
  /\ Len(cycles) < MaxCycles
  /\ cycles' = Append(cycles, Iterate(NewCycle))
  /\ UNCHANGED <<prog, WEBSITE_URLS, envPingDelay, PING_DELAY, LOG_LEVEL, PRIVACY_MODE,
                 proc, exitCode, job, logs, call, flowing>>

\* the callback of protocol.get: the response headers arrived
Response(c, j, code, t) ==
  /\ proc = "running"
  /\ cycles[c].reqs[j].st = "sent"
  /\ LET url == WEBSITE_URLS[j]
         c1 == [cycles[c] EXCEPT !.reqs[j] = [st |-> "draining", hangup |-> FALSE,
                                              statusCode |-> code, responseTime |-> t]]
     IN Commit(c, IF prog = "service"
                  THEN Settle(Write(c1, ResponseLines(url, j - 1, code, t)), j,
                              Fulfil(Resolved(url, code, t)))
                  ELSE c1)

\* res.on("end"): the body is drained
End(c, j) ==
  /\ proc = "running"
  /\ cycles[c].reqs[j].st = "draining"
  /\ LET url == WEBSITE_URLS[j]
         r == cycles[c].reqs[j]
         c1 == [cycles[c] EXCEPT !.reqs[j].st = "ended"]
     IN Commit(c, IF prog = "simple"
                  THEN Settle(Write(c1, ResponseLines(url, j - 1, r.statusCode, r.responseTime)),
                              j, Fulfil(Resolved(url, r.statusCode, r.responseTime)))
                  ELSE c1)

\* req.on("timeout"): the socket was idle for REQUEST_TIMEOUT; req.destroy()
\* and reject; destroying a request that has no response yet makes it emit
\* "error" (socket hang up) afterwards
Timeout(c, j, t) ==
  /\ proc = "running"
  /\ InFlight(cycles[c].reqs[j])
  /\ <<c, j>> \notin flowing
  /\ LET url == WEBSITE_URLS[j]
         r == cycles[c].reqs[j]
         c1 == [cycles[c] EXCEPT !.reqs[j].st = "destroyed",
                                 !.reqs[j].hangup = (r.st = "sent")]
     IN Commit(c, Settle(Write(c1, TimeoutLines(url, j - 1)), j,
                         Reject(Rejected(url, TimeoutMessage, t))))

\* req.on("error") for a transport error before any response
TransportError(c, j, msg, t) ==
  /\ proc = "running"
  /\ cycles[c].reqs[j].st = "sent"
  /\ LET url == WEBSITE_URLS[j]
         c1 == [cycles[c] EXCEPT !.reqs[j].st = "errored"]
     IN Commit(c, Settle(Write(c1, ErrorLines(url, j - 1, msg, t)), j,
                         Reject(Rejected(url, msg, t))))

\* req.on("error") for the error a destroyed request emits
HangUpError(c, j, t) ==
  /\ proc = "running"
  /\ cycles[c].reqs[j].st = "destroyed" /\ cycles[c].reqs[j].hangup
  /\ LET url == WEBSITE_URLS[j]
         c1 == [cycles[c] EXCEPT !.reqs[j].hangup = FALSE]
     IN Commit(c, Settle(Write(c1, ErrorLines(url, j - 1, HangUpMessage, t)), j,
                         Reject(Rejected(url, HangUpMessage, t))))

\* the setTimeout(resolve, PING_DELAY) of the loop fires
DelayElapsed(c) ==
  /\ proc = "running"
  /\ cycles[c].phase = "delay"
  /\ Commit(c, Iterate([cycles[c] EXCEPT !.i = @ + 1]))

\* the line of a signal handler, for either signal
SignalLines ==
  IF prog = "service"
  THEN LogInfo("Received <signal>, stopping cronjob...")
  ELSE Log("Received <signal> signal, exiting...")

\* SIGINT / SIGTERM: the service stops the job; both exit with 0
Signal ==
  /\ proc = "running"
  /\ proc' = "exited" /\ exitCode' = 0
  /\ job' = IF prog = "service" THEN "stopped" ELSE job
  /\ logs' = logs \cup SignalLines
  /\ UNCHANGED <<prog, WEBSITE_URLS, envPingDelay, PING_DELAY, LOG_LEVEL, PRIVACY_MODE,
               cycles, call, flowing>>

ResponseStep ==
  \E c \in DOMAIN cycles : \E j \in 1..NumUrls :
    \E code \in StatusCodes, t \in ElapsedVals : Response(c, j, code, t)

EndStep == \E c \in DOMAIN cycles : \E j \in 1..NumUrls : End(c, j)

TimeoutStep ==
  \E c \in DOMAIN cycles : \E j \in 1..NumUrls : \E t \in ElapsedVals : Timeout(c, j, t)

TransportErrorStep ==
  \E c \in DOMAIN cycles : \E j \in 1..NumUrls :
    \E msg \in TransportErrors, t \in ElapsedVals : TransportError(c, j, msg, t)

HangUpErrorStep ==
  \E c \in DOMAIN cycles : \E j \in 1..NumUrls : \E t \in ElapsedVals : HangUpError(c, j, t)

DelayElapsedStep == \E c \in DOMAIN cycles : DelayElapsed(c)

Next ==
  \/ ServiceMain
  \/ SimpleMain
  \/ CronTick
  \/ Signal
  \/ ResponseStep
  \/ EndStep
  \/ TimeoutStep
  \/ TransportErrorStep
  \/ HangUpErrorStep
  \/ DelayElapsedStep

Spec == Init /\ [][Next]_vars

TypeOK ==
  /\ prog \in {"service", "simple"}
  /\ LOG_LEVEL \in LogLevels
  /\ PRIVACY_MODE \in BOOLEAN
  /\ proc \in {"init", "running", "exited"}
  /\ exitCode \in {NoExit, 0, 1}
  /\ job \in {"none", "running", "stopped"}
  /\ call.fn \in {"none", "maskUrl", "displayUrl"}
  /\ flowing \subseteq (1..MaxCycles) \X (1..MaxUrls)
  /\ Len(cycles) <= MaxCycles
  /\ \A c \in DOMAIN cycles :
       /\ cycles[c].phase \in {"probe", "delay", "done", "rejected"}
       /\ cycles[c].i \in 1..(NumUrls + 1)

\* ------------------------------------------------------- the log settings
\* runs up to the first tick of the job under every setting of LOG_LEVEL
\* and PRIVACY_MODE
InitLog == Configured(LogUrlLists, UsualDelays, LogLevels, BOOLEAN)

NextLog ==
  \/ ServiceMain
  \/ SimpleMain
  \/ Signal
  \/ ResponseStep
  \/ EndStep
  \/ TimeoutStep
  \/ TransportErrorStep
  \/ HangUpErrorStep
  \/ DelayElapsedStep

SpecLog == InitLog /\ [][NextLog]_vars

\* -------------------------------------------------- the display functions
\* maskUrl and the displayUrl expression applied to the entry at position j
\* of the configured list, under either setting of PRIVACY_MODE
InitMask ==
  /\ Configured(DisplayUrlLists, UsualDelays, {"info"}, BOOLEAN)
  /\ prog = "service"

MaskUrlCall ==
  \E j \in 1..NumUrls :
    /\ call' = [fn |-> "maskUrl", url |-> WEBSITE_URLS[j], position |-> j,
                out |-> MaskUrl(WEBSITE_URLS[j])]
    /\ UNCHANGED <<prog, WEBSITE_URLS, envPingDelay, PING_DELAY, LOG_LEVEL, PRIVACY_MODE,
                   proc, exitCode, job, cycles, logs, flowing>>

DisplayUrlCall ==
  \E j \in 1..NumUrls :
    /\ call' = [fn |-> "displayUrl", url |-> WEBSITE_URLS[j], position |-> j,
                out |-> DisplayUrl(WEBSITE_URLS[j], j - 1)]
    /\ UNCHANGED <<prog, WEBSITE_URLS, envPingDelay, PING_DELAY, LOG_LEVEL, PRIVACY_MODE,
                   proc, exitCode, job, cycles, logs, flowing>>

NextMask ==
  \/ MaskUrlCall
  \/ DisplayUrlCall

SpecMask == InitMask /\ [][NextMask]_vars

\* ------------------------------------------- the cycle with elapsed times
\* the single-cycle program with elapsed times that differ between probes
InitAvg ==
  /\ Configured(UrlLists, UsualDelays, {"info"}, {FALSE})
  /\ prog = "simple"

ResponseStepWide ==
  \E c \in DOMAIN cycles : \E j \in 1..NumUrls :
    \E code \in StatusCodes, t \in ElapsedValsWide : Response(c, j, code, t)

TimeoutStepWide ==
  \E c \in DOMAIN cycles : \E j \in 1..NumUrls : \E t \in ElapsedValsWide : Timeout(c, j, t)

TransportErrorStepWide ==
  \E c \in DOMAIN cycles : \E j \in 1..NumUrls :
    \E msg \in TransportErrors, t \in ElapsedValsWide : TransportError(c, j, msg, t)

HangUpErrorStepWide ==
  \E c \in DOMAIN cycles : \E j \in 1..NumUrls :
    \E t \in ElapsedValsWide : HangUpError(c, j, t)

NextAvg ==
  \/ SimpleMain
  \/ Signal
  \/ ResponseStepWide
  \/ EndStep
  \/ TimeoutStepWide
  \/ TransportErrorStepWide
  \/ HangUpErrorStepWide
  \/ DelayElapsedStep

SpecAvg == InitAvg /\ [][NextAvg]_vars

\* ------------------------------------------------ a cycle that rejects
\* the service when a statement of pingAllWebsites outside its try block
\* throws as the cycle resumes from a delay: the promise of the invocation
\* rejects and its caller's catch runs.  Nothing in the code of the cycle
\* throws there by itself; the exception is injected.
SchedUrlLists == [1..1 -> UrlUniverse]

InitSched ==
  /\ Configured(SchedUrlLists, UsualDelays, {"info", "error"}, {FALSE})
  /\ prog = "service"

CycleThrows(c) ==
  /\ prog = "service" /\ proc = "running"
  /\ cycles[c].phase = "delay"
  /\ Commit(c, [cycles[c] EXCEPT !.phase = "rejected"])

CycleThrowsStep == \E c \in DOMAIN cycles : CycleThrows(c)

NextSched ==
  \/ ServiceMain
  \/ CronTick
  \/ Signal
  \/ ResponseStep
  \/ EndStep
  \/ TimeoutStep
  \/ TransportErrorStep
  \/ HangUpErrorStep
  \/ DelayElapsedStep
  \/ CycleThrowsStep

SpecSched == InitSched /\ [][NextSched]_vars

\* ------------------------------------------------- every delay setting
\* runs up to the first tick of the job under every kind of PING_DELAY
InitOnce == Configured(UrlLists, EveryDelay, {"info"}, {FALSE})

SpecOnce == InitOnce /\ [][NextLog]_vars

\* ------------------------------------------------- bodies that keep coming
\* res.on("data"): the body of the response is arriving; each chunk restarts
\* the idle timer of the socket, so no timeout fires while it flows
Data(c, j) ==
  /\ proc = "running"
  /\ cycles[c].reqs[j].st = "draining"
  /\ <<c, j>> \notin flowing
  /\ flowing' = flowing \cup {<<c, j>>}
  /\ UNCHANGED <<prog, WEBSITE_URLS, envPingDelay, PING_DELAY, LOG_LEVEL, PRIVACY_MODE,
                 proc, exitCode, job, cycles, logs, call>>

\* the server stops sending: the idle timer runs again
SocketIdle(c, j) ==
  /\ <<c, j>> \in flowing
  /\ flowing' = flowing \ {<<c, j>>}
  /\ UNCHANGED <<prog, WEBSITE_URLS, envPingDelay, PING_DELAY, LOG_LEVEL, PRIVACY_MODE,
                 proc, exitCode, job, cycles, logs, call>>

DataStep == \E c \in DOMAIN cycles : \E j \in 1..NumUrls : Data(c, j)

SocketIdleStep == \E c \in DOMAIN cycles : \E j \in 1..NumUrls : SocketIdle(c, j)

NextLive ==
  \/ ServiceMain
  \/ SimpleMain
  \/ Signal
  \/ ResponseStep
  \/ DataStep
  \/ SocketIdleStep
  \/ EndStep
  \/ TimeoutStep
  \/ TransportErrorStep
  \/ HangUpErrorStep
  \/ DelayElapsedStep

\* what the event loop and the timers guarantee: main runs, the idle timer
\* of every request fires unless the socket becomes active, a destroyed
\* request emits its error, the delay of a cycle elapses.  What the server
\* sends, and when, is not guaranteed.
Fairness ==
  /\ WF_vars(ServiceMain)
  /\ WF_vars(SimpleMain)
  /\ \A c \in 1..MaxCycles : WF_vars(c \in DOMAIN cycles /\ DelayElapsed(c))
  /\ \A c \in 1..MaxCycles : \A j \in 1..MaxUrls :
       /\ WF_vars(c \in DOMAIN cycles /\ j <= NumUrls
                    /\ \E t \in ElapsedVals : Timeout(c, j, t))
       /\ WF_vars(c \in DOMAIN cycles /\ j <= NumUrls
                    /\ \E t \in ElapsedVals : HangUpError(c, j, t))

SpecLive == Init /\ [][NextLive]_vars /\ Fairness

\* ------------------------------------------------------------------ claims
Running == proc = "running"
Results(c) == cycles[c].results
HasStatus(r) == "statusCode" \in DOMAIN r
HasError(r) == "error" \in DOMAIN r
Range(f) == {f[x] : x \in DOMAIN f}
Active(c) == cycles[c].phase \in {"probe", "delay"}

\* C1: in the scheduled service at most one pingAllWebsites invocation is in
\* flight at any time: no cycle starts while an earlier one has not returned.
C1_AtMostOneCycleInFlight ==
  (prog = "service" /\ Running) =>
    Cardinality({c \in DOMAIN cycles : Active(c)}) <= 1

\* C2: within one cycle the request of a later endpoint is never dispatched
\* while the request of an earlier endpoint is still in flight (body not
\* drained, not timed out, not failed).
C2_ProbesStrictlySequential ==
  \A c \in DOMAIN cycles : \A j, k \in 1..NumUrls :
    (j < k /\ InFlight(cycles[c].reqs[j])) => cycles[c].reqs[k].st = "none"

\* C3: a cycle never aborts early and never rejects: while it runs it has
\* one outcome for every endpoint it has passed, whatever that endpoint's
\* probe did, and when it returns it has one outcome per configured endpoint.
C3_CycleNeverAbortsEarly ==
  \A c \in DOMAIN cycles :
    LET cyc == cycles[c]
    IN /\ cyc.phase # "rejected"
       /\ cyc.phase = "probe" => Len(cyc.results) = cyc.i - 1
       /\ cyc.phase = "delay" => Len(cyc.results) = cyc.i
       /\ cyc.phase = "done" => (cyc.i = NumUrls + 1 /\ Len(cyc.results) = NumUrls)
       /\ cyc.successful + cyc.failed = (IF cyc.phase = "done" THEN NumUrls ELSE 0)

\* a returned cycle whose first probe timed out and whose second succeeded
C3_Witness ==
  \E c \in DOMAIN cycles :
    /\ cycles[c].phase = "done" /\ Len(Results(c)) = 2
    /\ HasError(Results(c)[1]) /\ Results(c)[1].error = TimeoutMessage
    /\ Success(Results(c)[2])

\* C4: the i-th outcome of a cycle's results refers to the i-th configured
\* endpoint, whatever the outcomes are.
C4_OutcomeOrder ==
  \A c \in DOMAIN cycles : \A j \in 1..Len(Results(c)) :
    j <= NumUrls /\ Results(c)[j].url = WEBSITE_URLS[j]

\* two different endpoints, the first failed by a transport error, the
\* second answered
C4_Witness ==
  \E c \in DOMAIN cycles :
    /\ NumUrls = 2 /\ WEBSITE_URLS[1] # WEBSITE_URLS[2]
    /\ Len(Results(c)) = 2
    /\ HasError(Results(c)[1]) /\ HasStatus(Results(c)[2])

\* C5: every endpoint probed in a cycle belongs to the validated set: an entry
\* that does not parse is never probed nor counted in a cycle's results.
C5_OnlyValidatedEndpointsProbed ==
  \A c \in DOMAIN cycles : \A j \in 1..Len(Results(c)) :
    Results(c)[j].url \in Range(ValidUrlsOf(WEBSITE_URLS))

\* C6: an outcome that carries a status code carries the code of the
\* response received for that endpoint, and its success flag is TRUE exactly
\* for 200 <= code < 400.
C6_SuccessIffStatusIn200To399 ==
  \A c \in DOMAIN cycles : \A j \in 1..Len(Results(c)) :
    LET r == Results(c)[j]
    IN HasStatus(r) =>
         /\ r.statusCode = cycles[c].reqs[j].statusCode
         /\ r.statusCode \in StatusCodes
         /\ "success" \in DOMAIN r
         /\ r.success = (200 <= r.statusCode /\ r.statusCode < 400)

\* one cycle holding the outcomes of a 399 and of a 400 response
C6_Witness ==
  \E c \in DOMAIN cycles :
    /\ Len(Results(c)) = 2
    /\ HasStatus(Results(c)[1]) /\ Results(c)[1].statusCode = 399 /\ Results(c)[1].success
    /\ HasStatus(Results(c)[2]) /\ Results(c)[2].statusCode = 400 /\ ~Results(c)[2].success

\* C7: a probe whose request ran into the timeout has that request destroyed
\* and its outcome is the failure "Request timeout" without a status code; the
\* cycle has moved past that endpoint.
C7_TimeoutYieldsTimeoutOutcome ==
  \A c \in DOMAIN cycles : \A j \in 1..NumUrls :
    cycles[c].reqs[j].st = "destroyed" =>
      /\ Len(Results(c)) >= j
      /\ HasError(Results(c)[j]) /\ Results(c)[j].error = TimeoutMessage
      /\ ~HasStatus(Results(c)[j])
      /\ ~Success(Results(c)[j])
      /\ ~Pending(cycles[c], j)

\* C8: every recorded outcome carries exactly one of a status code and a
\* failure reason; an unacceptable status never comes with a failure reason.
C8_StatusXorFailureReason ==
  \A c \in DOMAIN cycles : \A j \in 1..Len(Results(c)) :
    LET r == Results(c)[j]
    IN /\ HasStatus(r) # HasError(r)
       /\ (HasStatus(r) /\ ~Success(r)) => ~HasError(r)

\* one cycle holding an unacceptable status and a failure reason
C8_Witness ==
  \E c \in DOMAIN cycles :
    /\ Len(Results(c)) = 2
    /\ HasStatus(Results(c)[1]) /\ ~Success(Results(c)[1])
    /\ HasError(Results(c)[2])

\* what the exit contract reads off the single-cycle program's only cycle
OutcomeFailed(j) == cycles # <<>> /\ j <= Len(Results(1)) /\ ~Success(Results(1)[j])
AnyFailed == \E j \in 1..NumUrls : OutcomeFailed(j)
AnyValidEndpointFailed ==
  \E j \in 1..NumUrls : ParseURL(WEBSITE_URLS[j]).ok /\ OutcomeFailed(j)
AllSucceeded ==
  /\ cycles # <<>> /\ Len(Results(1)) = NumUrls
  /\ \A j \in 1..NumUrls : Success(Results(1)[j])
ZeroValid == \A j \in 1..NumUrls : ~ParseURL(WEBSITE_URLS[j]).ok
SimpleExited == prog = "simple" /\ proc = "exited"

\* C9 as stated: the single-cycle program exits with 0 if all endpoints
\* succeeded and with 1 if any (validated) endpoint failed or none was valid,
\* in every run, a signal during the cycle included.
C9_ExitCodeInEveryRun ==
  SimpleExited =>
    /\ (AnyValidEndpointFailed \/ ZeroValid) => exitCode = 1
    /\ AllSucceeded => exitCode = 0

\* C9 as amended: a run that main ends exits by the contract; a run that a
\* signal ends while the cycle is still in progress exits with 0.
C9_ExitCodeUnlessSignalled ==
  SimpleExited =>
    IF cycles = <<>> THEN ZeroValid /\ exitCode = 1
    ELSE IF cycles[1].phase = "done"
    THEN /\ ~ZeroValid
         /\ (AnyFailed => exitCode = 1)
         /\ (AllSucceeded => exitCode = 0)
         /\ (AnyFailed \/ AllSucceeded)
    ELSE Active(1) /\ exitCode = 0

\* a finished run with one endpoint that succeeded and one that failed
C9_Witness ==
  /\ SimpleExited /\ cycles # <<>> /\ cycles[1].phase = "done"
  /\ Len(Results(1)) = 2 /\ Success(Results(1)[1]) /\ ~Success(Results(1)[2])
  /\ exitCode = 1

\* C10: when validation leaves no valid endpoint, startup is fatal: the
\* process exits with 1, the cron job is never started and no cycle (the
\* initial ping included) is ever started.
C10_NoValidEndpointIsFatal ==
  (ZeroValid /\ proc # "init") =>
    /\ proc = "exited" /\ exitCode = 1
    /\ job = "none"
    /\ cycles = <<>>

\* the service after its fatal startup
C10_Witness ==
  /\ prog = "service" /\ ZeroValid
  /\ proc = "exited" /\ exitCode = 1 /\ job = "none" /\ cycles = <<>>

\* C13: for every cycle that has computed its summary, successful + failed
\* equals the number of outcomes in the results, and successful is exactly
\* the number of outcomes with success = true.
C13_CountsPartitionOutcomes ==
  \A c \in DOMAIN cycles :
    cycles[c].phase = "done" =>
      LET rs == Results(c)
          flagged == {j \in DOMAIN rs : "success" \in DOMAIN rs[j] /\ rs[j].success = TRUE}
      IN /\ cycles[c].successful + cycles[c].failed = Len(rs)
         /\ cycles[c].successful = Cardinality(flagged)
         /\ cycles[c].failed = Cardinality(DOMAIN rs \ flagged)

\* a summary over one success and one unacceptable status
C13_Witness ==
  \E c \in DOMAIN cycles :
    /\ cycles[c].phase = "done" /\ Len(Results(c)) = 2
    /\ HasStatus(Results(c)[1]) /\ Results(c)[1].success
    /\ HasStatus(Results(c)[2]) /\ ~Results(c)[2].success
    /\ cycles[c].successful = 1 /\ cycles[c].failed = 1

\* what the retry contract reads off a recorded outcome: the probe reached
\* the network and ended in a timeout, a transport error or an unacceptable
\* status
ProbeFailed(c, j) ==
  /\ j <= Len(Results(c))
  /\ ParseURL(WEBSITE_URLS[j]).ok
  /\ ~Success(Results(c)[j])

\* C19: a probe that ends in a timeout, a transport error or an unacceptable
\* status is followed by at least one further request to the same endpoint
\* before its outcome is final: a recorded failure stands for two requests
\* or more.
C19_FailedProbeIsRetried ==
  \A c \in DOMAIN cycles : \A j \in 1..NumUrls :
    ProbeFailed(c, j) => cycles[c].gets[j] >= 2

\* the cycle's state before a step: a cycle the step starts has no state yet
Before(c) == IF c \in DOMAIN cycles THEN cycles[c] ELSE NewCycle

\* C20: when the inter-request delay is positive, every recorded outcome,
\* whatever it is and the last endpoint's included, puts the cycle into the
\* delay, and the summary is computed only by the step that ends the delay
\* following the last endpoint's probe.
C20_DelayAfterEveryProbe ==
  [][PING_DELAY > 0 =>
       \A c \in DOMAIN cycles' :
         /\ Len(cycles'[c].results) # Len(Before(c).results) =>
              /\ Len(cycles'[c].results) = Len(Before(c).results) + 1
              /\ cycles'[c].phase = "delay"
              /\ cycles'[c].i = Len(cycles'[c].results)
         /\ (cycles'[c].phase = "done" /\ Before(c).phase # "done") =>
              /\ Before(c).phase = "delay"
              /\ Before(c).i = NumUrls
              /\ Len(Before(c).results) = NumUrls]_vars

\* a cycle suspended after the probe of its last endpoint, which failed
C20_Witness ==
  /\ PING_DELAY > 0
  /\ \E c \in DOMAIN cycles :
       /\ cycles[c].phase = "delay" /\ cycles[c].i = NumUrls
       /\ Len(Results(c)) = NumUrls /\ NumUrls = 2
       /\ HasError(Results(c)[NumUrls])

\* every line written so far
AllLines == logs \cup UNION {cycles[c].log : c \in DOMAIN cycles}

\* sub occurs in the string s
Contains(s, sub) ==
  \E k \in 1..(Len(s) - Len(sub) + 1) : SubSeq(s, k, k + Len(sub) - 1) = sub

\* a line that reports invalid entries, by identity or by count
ReportsInvalid(l) == Contains(l.text, "Invalid URL") \/ Contains(l.text, "invalid URLs")

\* C11: under every configured log level, once startup has validated the
\* list, the presence of an entry that fails URL validation is signalled by
\* at least one emitted line (its identity or the count of invalid entries).
C11_InvalidEntriesReported ==
  (proc # "init" /\ \E j \in 1..NumUrls : ~ParseURL(WEBSITE_URLS[j]).ok) =>
    \E l \in AllLines : ReportsInvalid(l)

\* the host privacy is about: the parsed host, or the entry itself when it
\* does not parse
Secret(url) == IF ParseURL(url).ok THEN ParseURL(url).hostname ELSE url

\* C16: with PRIVACY_MODE enabled no line the service emits, at startup, in
\* validation, for probe results or for errors, contains a configured URL or
\* its host.
C16_NoUrlInLogsUnderPrivacy ==
  (prog = "service" /\ PRIVACY_MODE) =>
    \A l \in AllLines : \A j \in 1..NumUrls :
      /\ ~Contains(l.text, WEBSITE_URLS[j])
      /\ ~Contains(l.text, Secret(WEBSITE_URLS[j]))

\* first three and last three characters of the host around "***"
Obfuscated(host) == SubSeq(host, 1, 3) \o "***" \o SubSeq(host, Len(host) - 2, Len(host))

\* C17: with PRIVACY_MODE=true the line of every successful probe of the
\* service shows the partially obfuscated URL (exa***com for example.com),
\* not the raw URL and not an endpoint number.
C17_PrivacyModeShowsMaskedUrl ==
  (prog = "service" /\ PRIVACY_MODE /\ LOG_LEVEL \in {"info", "warn", "error"}) =>
    \A c \in DOMAIN cycles : \A j \in 1..Len(Results(c)) :
      Success(Results(c)[j]) =>
        \E l \in cycles[c].log :
          /\ Contains(l.text, "Ping successful for ")
          /\ Contains(l.text, Obfuscated(ParseURL(WEBSITE_URLS[j]).hostname))
          /\ ~Contains(l.text, "Endpoint")
          /\ ~Contains(l.text, ParseURL(WEBSITE_URLS[j]).hostname)

\* the sum of the elapsed times of all outcomes
RECURSIVE SumOfTimes(_)
SumOfTimes(rs) == IF rs = <<>> THEN 0 ELSE Head(rs).responseTime + SumOfTimes(Tail(rs))

\* C14: the average response time a cycle of the single-cycle program
\* returns is the arithmetic mean of the elapsed time over all its outcomes,
\* the failed ones included; it is never NaN and never a division by zero,
\* because a returned cycle has at least one outcome.
C14_AverageIsMeanOverAllOutcomes ==
  \A c \in DOMAIN cycles :
    (prog = "simple" /\ cycles[c].phase = "done") =>
      LET avg == cycles[c].averageResponseTime
      IN /\ ~avg.nan
         /\ Len(Results(c)) >= 1
         /\ avg.den = Len(Results(c))
         /\ avg.num = SumOfTimes(Results(c))
         /\ \E l \in cycles[c].log :
              l.text = "[<time>] Average response time: "
                         \o ToString((2 * SumOfTimes(Results(c)) + Len(Results(c)))
                                       \div (2 * Len(Results(c)))) \o "ms"

\* a returned cycle with a timeout after 2 ms and a success after 1 ms: the
\* mean is 3/2
C14_Witness ==
  \E c \in DOMAIN cycles :
    /\ prog = "simple" /\ cycles[c].phase = "done" /\ Len(Results(c)) = 2
    /\ HasError(Results(c)[1]) /\ Results(c)[1].responseTime = 2
    /\ Success(Results(c)[2]) /\ Results(c)[2].responseTime = 1
    /\ cycles[c].averageResponseTime = [nan |-> FALSE, num |-> 3, den |-> 2]

\* C15: in ultra-private mode the display string of a probe is "Endpoint "
\* followed by the 1-based position of the endpoint in the configured list;
\* the URL does not enter it, so two URLs at the same position display alike.
C15_EndpointNumberOnly ==
  (call.fn = "displayUrl" /\ PRIVACY_MODE) =>
    /\ call.out = "Endpoint " \o ToString(call.position)
    /\ call.position \in 1..NumUrls
    /\ ~Contains(call.out, Secret(call.url))

\* the display string of the second endpoint of a list
C15_Witness ==
  /\ call.fn = "displayUrl" /\ PRIVACY_MODE
  /\ call.position = 2 /\ call.out = "Endpoint 2"

\* a call of maskUrl with masking on
Masked == call.fn = "maskUrl" /\ PRIVACY_MODE
Host == ParseURL(call.url).hostname
Path == ParseURL(call.url).pathname

\* C18 as stated: a host longer than 6 characters renders as "https://",
\* its first 3 characters, "***", its last 3 characters and the path; a host
\* of 6 characters or fewer, or a URL that does not parse, renders exactly
\* "https://***"; the host never appears in the result.
C18_ShortHostRendersPlaceholderOnly ==
  Masked =>
    /\ (ParseURL(call.url).ok /\ Len(Host) > 6) =>
         call.out = "https://" \o Obfuscated(Host) \o Path
    /\ (~ParseURL(call.url).ok \/ Len(Host) <= 6) => call.out = "https://***"
    /\ ~Contains(call.out, Secret(call.url))

\* C18 as amended: a host of 6 characters or fewer renders as "https://***"
\* followed by the original path; only a URL that does not parse renders
\* exactly "https://***".
C18_ShortHostRendersPlaceholderAndPath ==
  Masked =>
    /\ (ParseURL(call.url).ok /\ Len(Host) > 6) =>
         call.out = "https://" \o Obfuscated(Host) \o Path
    /\ (ParseURL(call.url).ok /\ Len(Host) <= 6) =>
         call.out = "https://***" \o Path /\ Len(Path) >= 1
    /\ ~ParseURL(call.url).ok => call.out = "https://***"
    /\ ~Contains(call.out, Secret(call.url))

\* a host of 6 characters masked with its path kept
C18_Witness ==
  /\ Masked /\ call.url = UrlHost6
  /\ call.out = "https://***/health"

SomeCycleFailed == \E c \in DOMAIN cycles : cycles[c].phase = "rejected"

\* C12: after a cycle invocation that fails (its promise rejects), the
\* service is still alive with its job running, the next tick starts a
\* cycle, and the failure was logged by the caller; only a signal ends the
\* process, with code 0.
C12_FailedCycleKeepsSchedule ==
  (prog = "service" /\ SomeCycleFailed) =>
    /\ proc \in {"running", "exited"}
    /\ proc = "running" =>
         /\ job = "running" /\ exitCode = NoExit
         /\ Len(cycles) < MaxCycles => ENABLED CronTick
    /\ proc = "exited" => (exitCode = 0 /\ job = "stopped")
    /\ LOG_LEVEL = "error" =>
         \E l \in logs : l.text \in {"Error in initial ping:", "Error in cron job:"}

\* the initial ping failed and the next tick is due
C12_Witness ==
  /\ prog = "service" /\ proc = "running" /\ job = "running"
  /\ Len(cycles) = 1 /\ cycles[1].phase = "rejected"
  /\ ENABLED CronTick

\* C21: every non-negative integer configured as PING_DELAY is the effective
\* delay; with PING_DELAY=0 the effective delay is 0 and no cycle suspends
\* between probes.
C21_ZeroDelayMeansNoDelay ==
  (proc # "init" /\ ~envPingDelay.nan /\ envPingDelay.n >= 0) =>
    /\ PING_DELAY = envPingDelay.n
    /\ envPingDelay.n = 0 => \A c \in DOMAIN cycles : cycles[c].phase # "delay"

\* the endpoints a cycle is done with
Passed(cyc) ==
  CASE cyc.phase = "probe" -> cyc.i - 1
    [] cyc.phase = "delay" -> cyc.i
    [] cyc.phase = "done" -> NumUrls
    [] OTHER -> Len(cyc.results)

\* the request has had an event that settles its probe
SettlingEventFired(r) ==
  \/ r.st \in {"ended", "destroyed", "errored"}
  \/ prog = "service" /\ r.st = "draining"

\* C22: each probe settles with exactly one outcome: a cycle holds one
\* outcome per endpoint it is done with and none for the others, an endpoint
\* whose request had a settling event has its outcome, and no step, whatever
\* event it handles, changes or removes an outcome already recorded.
C22_ExactlyOneOutcomePerProbe ==
  [][\A c \in DOMAIN cycles' :
       LET old == Before(c)
           new == cycles'[c]
       IN /\ Len(new.results) = Passed(new)
          /\ Len(new.results) >= Len(old.results)
          /\ SubSeq(new.results, 1, Len(old.results)) = old.results
          /\ \A j \in 1..NumUrls :
               SettlingEventFired(new.reqs[j]) => j <= Len(new.results)]_vars

\* the service after a timeout that followed the response of endpoint 1 and
\* after the error that followed the timeout of endpoint 2: the status and
\* the timeout stand
C22_Witness ==
  \E c \in DOMAIN cycles :
    /\ prog = "service" /\ Len(Results(c)) = 2
    /\ cycles[c].reqs[1].st = "destroyed" /\ HasStatus(Results(c)[1])
    /\ cycles[c].reqs[2].st = "destroyed" /\ cycles[c].reqs[2].statusCode = NoStatus
    /\ ~cycles[c].reqs[2].hangup
    /\ HasError(Results(c)[2]) /\ Results(c)[2].error = TimeoutMessage

\* the cycle has returned its results, or the process has ended
Completed(c) == proc = "exited" \/ (c \in DOMAIN cycles /\ cycles[c].phase = "done")

\* C23: every started cycle eventually completes: while the process lives,
\* each probe eventually settles and pingAllWebsites eventually returns its
\* results, also when the headers of a response arrive and its body never
\* ends.
C23_EveryCycleCompletes ==
  \A c \in 1..MaxCycles : (c \in DOMAIN cycles) ~> Completed(c)

====
